---------------------------- MODULE Spec2Model ----------------------------
(***************************************************************************)
(* A model of src/src/index.tsx: the phone-number masking, parsing and     *)
(* validation helpers (getMetadata, getRawValue, displayFormat,            *)
(* cleanInput, checkValidity, parsePhoneNumber) and the PhoneInput         *)
(* component's event handlers (mount effect, onKeyDown, onInput/format,    *)
(* onChange, onSelect).                                                    *)
(*                                                                         *)
(* A JavaScript string is a sequence of one-character strings; an offset   *)
(* into it is 0-based, as in the source.  A value that may be null or      *)
(* undefined is None (the empty tuple) or Some(v) (a one-element tuple).   *)
(***************************************************************************)
EXTENDS Integers, Sequences, FiniteSets, TLC

VARIABLES
    props,          \* the component's props: [value, country]
    value,          \* useState value: the displayed string (line 92)
    countryCode,    \* useState countryCode: the pinned ISO code (line 94)
    backRef,        \* backRef.current (line 89)
    initiatedRef,   \* initiatedRef.current (line 90)
    event,          \* the input event being dispatched, with what format read and computed
                    \* for it, until onChange has run; None between events
    key,            \* the last keydown since the previous formatting pass ("none" if there was none)
    phoneMetadata,  \* the PhoneNumber last handed to handleChange / handleMount
    edits,          \* the number of input events so far
    call,           \* a direct call of one of the exported helpers: its name and arguments
    ret             \* what that call returned

vars == <<props, value, countryCode, backRef, initiatedRef, event, key,
          phoneMetadata, edits, call, ret>>

widgetVars == <<props, value, countryCode, backRef, initiatedRef, event, key,
                phoneMetadata, edits>>

(***************************************************************************)
(* Characters, strings, optional values                                    *)
(***************************************************************************)
Digits == {"0", "1", "2", "3", "4", "5", "6", "7", "8", "9"}

IsDigit(c) == c \in Digits

None == << >>

Some(v) == <<v>>

\* line 14: const slots = new Set(".")
slots == {"."}

\* String.prototype.slice(0, n) for 0 <= n
Slice0(s, n) == SubSeq(s, 1, IF n < Len(s) THEN n ELSE Len(s))

\* String.prototype.startsWith
StartsWith(s, p) == Len(p) <= Len(s) /\ SubSeq(s, 1, Len(p)) = p

\* Array.prototype.findIndex / String.prototype.search on a set of characters: 0-based, -1 if none
FindIndex(s, S) ==
    IF \E k \in 1..Len(s) : s[k] \in S
    THEN (CHOOSE k \in 1..Len(s) : s[k] \in S /\ \A m \in 1..(k - 1) : s[m] \notin S) - 1
    ELSE -1

DigitVal(c) ==
    CASE c = "0" -> 0 [] c = "1" -> 1 [] c = "2" -> 2 [] c = "3" -> 3 [] c = "4" -> 4
      [] c = "5" -> 5 [] c = "6" -> 6 [] c = "7" -> 7 [] c = "8" -> 8 [] c = "9" -> 9

DigitChar(n) ==
    CASE n = 0 -> "0" [] n = 1 -> "1" [] n = 2 -> "2" [] n = 3 -> "3" [] n = 4 -> "4"
      [] n = 5 -> "5" [] n = 6 -> "6" [] n = 7 -> "7" [] n = 8 -> "8" [] n = 9 -> "9"

\* parseInt on a run of decimal digits (a leading "+" is a sign and adds nothing)
RECURSIVE ParseInt(_)
ParseInt(ds) ==
    IF ds = << >> THEN 0
    ELSE 10 * ParseInt(SubSeq(ds, 1, Len(ds) - 1)) + DigitVal(ds[Len(ds)])

\* Number.prototype.toString of a non-negative integer: no leading zeros
RECURSIVE NumToString(_)
NumToString(n) ==
    IF n < 10 THEN <<DigitChar(n)>>
    ELSE Append(NumToString(n \div 10), DigitChar(n % 10))

\* a template literal's rendering of a number or of null: `${x}`
Interpolate(x) == IF x = None THEN <<"n", "u", "l", "l">> ELSE NumToString(x[1])

\* the truthiness of a number or null (Boolean(x), x || y): null and 0 are falsy
Truthy(x) == x # None /\ x[1] # 0

(***************************************************************************)
(* The exported helpers                                                    *)
(***************************************************************************)

\* a variant of getMetadata that forgets the pin
getMetadataUnpinned(rawValue, countriesList, country) ==
    LET ok(c) == StartsWith(rawValue, c.dial)
    IN  IF \E k \in 1..Len(countriesList) : ok(countriesList[k])
        THEN Some(countriesList[CHOOSE k \in 1..Len(countriesList) :
                      ok(countriesList[k]) /\ \A m \in 1..(k - 1) : ~ok(countriesList[m])])
        ELSE None

\* lines 16-18: countriesList.find(c => rawValue.startsWith(c[3]) && (country == null || country === c[0]))
getMetadata(rawValue, countriesList, country) ==
    LET ok(c) == StartsWith(rawValue, c.dial) /\ (country = None \/ country[1] = c.iso)
    IN  IF \E k \in 1..Len(countriesList) : ok(countriesList[k])
        THEN Some(countriesList[CHOOSE k \in 1..Len(countriesList) :
                      ok(countriesList[k]) /\ \A m \in 1..(k - 1) : ~ok(countriesList[m])])
        ELSE None

\* lines 21-23: value.replaceAll(/\D/g, "") for a string
getRawValue(v) == SelectSeq(v, IsDigit)

\* line 24: [countryCode, areaCode, phoneNumber].filter(Boolean).join("") for a PhoneNumber
getRawValueOf(n) ==
    (IF Truthy(n.countryCode) THEN NumToString(n.countryCode[1]) ELSE << >>)
    \o (IF Truthy(n.areaCode) THEN NumToString(n.areaCode[1]) ELSE << >>)
    \o (IF n.phoneNumber # None THEN n.phoneNumber[1] ELSE << >>)

\* the first replace of line 28: value.replace(/[.\s\D]+$/, ""): the trailing run of
\* characters that are no digit is removed
RECURSIVE TrimTail(_)
TrimTail(s) ==
    IF s = << >> \/ IsDigit(s[Len(s)]) THEN s ELSE TrimTail(SubSeq(s, 1, Len(s) - 1))

\* the second replace of line 28: .replace(/(\(\d+)$/, "$1)"): a string that ends in
\* "(" and one or more digits gets a ")" appended
ClosesParen(s) ==
    \E k \in 1..(Len(s) - 1) :
        s[k] = "(" /\ \A m \in (k + 1)..Len(s) : IsDigit(s[m])

\* a variant of displayFormat without the second replace
displayFormatUnclosed(v) == TrimTail(v)

\* lines 27-29
displayFormat(v) ==
    LET t == TrimTail(v) IN IF ClosesParen(t) THEN Append(t, ")") ELSE t

\* line 33, one step of Array.from(pattern, c => input[0] === c || slots.has(c) ? input.shift() || c : c):
\* the characters emitted so far and the digits still queued
RECURSIVE CleanWalk(_, _, _)
CleanWalk(input, pattern, k) ==
    IF k = 0 THEN [out |-> << >>, queue |-> input]
    ELSE LET before == CleanWalk(input, pattern, k - 1)
             c == pattern[k]
             q == before.queue
         IN  IF (q # << >> /\ q[1] = c) \/ c \in slots
             THEN IF q # << >>
                  THEN [out |-> Append(before.out, q[1]), queue |-> Tail(q)]
                  ELSE [out |-> Append(before.out, c), queue |-> q]
             ELSE [out |-> Append(before.out, c), queue |-> q]

\* a variant of cleanInput that reads input[0] and never shifts it
cleanInputStuck(input, pattern) ==
    LET q == SelectSeq(input, IsDigit)
    IN  [k \in 1..Len(pattern) |->
            IF pattern[k] \in slots /\ q # << >> THEN q[1] ELSE pattern[k]]

\* lines 31-34: input.match(/\d/g) || [], then the walk over the pattern
cleanInput(input, pattern) == CleanWalk(SelectSeq(input, IsDigit), pattern, Len(pattern)).out

\* pattern.replaceAll(/\d/g, ".") of lines 128 and 136
DotDigits(pattern) == [k \in 1..Len(pattern) |-> IF IsDigit(pattern[k]) THEN "." ELSE pattern[k]]

\* lines 127-129
clean(input, pattern) == cleanInput(input, DotDigits(pattern))

\* the longest run of digits of s that starts at index k (1-based)
RECURSIVE DigitRun(_, _)
DigitRun(s, k) ==
    IF k > Len(s) \/ ~IsDigit(s[k]) THEN << >> ELSE <<s[k]>> \o DigitRun(s, k + 1)

\* lines 50, 54: formattedNumber.match(/\+\d+/): the leftmost "+" that a digit follows,
\* with the digits after it; None when there is no match
MatchCountryCode(s) ==
    LET at(k) == s[k] = "+" /\ DigitRun(s, k + 1) # << >>
    IN  IF \E k \in 1..Len(s) : at(k)
        THEN Some(DigitRun(s, 1 + CHOOSE k \in 1..Len(s) : at(k) /\ \A m \in 1..(k - 1) : ~at(m)))
        ELSE None

\* lines 51, 55: formattedNumber.match(/\((\d+)\)/): the leftmost "(", digits, ")";
\* the captured digits, None when there is no match
MatchAreaCode(s) ==
    LET run(k) == DigitRun(s, k + 1)
        at(k) == /\ s[k] = "("
                 /\ run(k) # << >>
                 /\ k + Len(run(k)) + 1 <= Len(s)
                 /\ s[k + Len(run(k)) + 1] = ")"
    IN  IF \E k \in 1..Len(s) : at(k)
        THEN Some(run(CHOOSE k \in 1..Len(s) : at(k) /\ \A m \in 1..(k - 1) : ~at(m)))
        ELSE None

\* a variant of the subscriber pattern that leaves the area code out: `^${countryCode}(\\d+)`
MatchPhoneNumberNoArea(v, cc, ac) ==
    LET prefix == Interpolate(cc)
    IN  IF StartsWith(v, prefix) /\ Len(v) > Len(prefix)
        THEN Some(SubSeq(v, Len(prefix) + 1, Len(v)))
        ELSE None

\* lines 62-64: value.match(new RegExp(`^${countryCode}${areaCode || ""}(\\d+)`)) on the
\* digits-only value: the digits after the prefix, None when the value does not start with
\* the prefix or nothing follows it
MatchPhoneNumber(v, cc, ac) ==
    LET prefix == Interpolate(cc) \o (IF Truthy(ac) THEN NumToString(ac[1]) ELSE << >>)
    IN  IF StartsWith(v, prefix) /\ Len(v) > Len(prefix)
        THEN Some(SubSeq(v, Len(prefix) + 1, Len(v)))
        ELSE None

\* a variant of parsePhoneNumber that returns no field unless a country resolves
parsePhoneNumberGated(formattedNumber, countriesList, country) ==
    LET v == getRawValue(formattedNumber)
        metadata == getMetadata(v, countriesList, country)
        countryCodeMatch == MatchCountryCode(formattedNumber)
        areaCodeMatch == MatchAreaCode(formattedNumber)
        cc == IF countryCodeMatch # None THEN Some(ParseInt(countryCodeMatch[1])) ELSE None
        ac == IF areaCodeMatch # None THEN Some(ParseInt(areaCodeMatch[1])) ELSE None
    IN  IF metadata = None
        THEN [countryCode |-> None, areaCode |-> None, phoneNumber |-> None, isoCode |-> None]
        ELSE [countryCode |-> cc,
              areaCode    |-> ac,
              phoneNumber |-> MatchPhoneNumber(v, cc, ac),
              isoCode     |-> Some(metadata[1].iso)]

\* lines 47-67
parsePhoneNumber(formattedNumber, countriesList, country) ==
    LET v == getRawValue(formattedNumber)
        metadata == getMetadata(v, countriesList, country)
        countryCodeMatch == MatchCountryCode(formattedNumber)
        areaCodeMatch == MatchAreaCode(formattedNumber)
        cc == IF countryCodeMatch # None THEN Some(ParseInt(countryCodeMatch[1])) ELSE None
        ac == IF areaCodeMatch # None THEN Some(ParseInt(areaCodeMatch[1])) ELSE None
    IN  [countryCode |-> cc,
         areaCode    |-> ac,
         phoneNumber |-> MatchPhoneNumber(v, cc, ac),
         isoCode     |-> IF metadata # None THEN Some(metadata[1].iso) ELSE None]

\* a regular expression of the validation table: an optional ^, a sequence of atoms (a
\* character class repeated min to max times), an optional $
RECURSIVE MatchAtoms(_, _)
MatchAtoms(atoms, x) ==
    IF atoms = << >> THEN x = << >>
    ELSE \E n \in atoms[1].min..atoms[1].max :
            /\ n <= Len(x)
            /\ \A k \in 1..n : x[k] \in atoms[1].class
            /\ MatchAtoms(Tail(atoms), SubSeq(x, n + 1, Len(x)))

\* line 39: new RegExp(pattern).test(x): the pattern matches somewhere in x
RegExpTest(pattern, x) ==
    \E i \in 0..Len(x) : \E j \in i..Len(x) :
        /\ pattern.start => i = 0
        /\ pattern.end => j = Len(x)
        /\ MatchAtoms(pattern.atoms, SubSeq(x, i + 1, j))

\* a variant of checkValidity that reads the other pattern of the pair: [Number(!strict)]
checkValiditySwapped(table, metadata, strict) ==
    IF metadata.isoCode = None \/ metadata.isoCode[1] \notin DOMAIN table
    THEN [threw |-> TRUE, value |-> FALSE]
    ELSE LET pattern == table[metadata.isoCode[1]][IF strict THEN 1 ELSE 2]
             x == (IF Truthy(metadata.areaCode) THEN NumToString(metadata.areaCode[1]) ELSE << >>)
                  \o (IF metadata.phoneNumber # None THEN metadata.phoneNumber[1] ELSE << >>)
         IN  [threw |-> FALSE, value |-> RegExpTest(pattern, x)]

\* a variant of checkValidity that guards the lookup and answers false for a missing entry
checkValidityGuarded(table, metadata, strict) ==
    IF metadata.isoCode = None \/ metadata.isoCode[1] \notin DOMAIN table
    THEN [threw |-> FALSE, value |-> FALSE]
    ELSE LET pattern == table[metadata.isoCode[1]][IF strict THEN 2 ELSE 1]
             x == (IF Truthy(metadata.areaCode) THEN NumToString(metadata.areaCode[1]) ELSE << >>)
                  \o (IF metadata.phoneNumber # None THEN metadata.phoneNumber[1] ELSE << >>)
         IN  [threw |-> FALSE, value |-> RegExpTest(pattern, x)]

\* lines 36-40, over the imported validation table: reading [Number(strict)] of a missing
\* entry throws a TypeError
checkValidityIn(table, metadata, strict) ==
    IF metadata.isoCode = None \/ metadata.isoCode[1] \notin DOMAIN table
    THEN [threw |-> TRUE, value |-> FALSE]
    ELSE LET pattern == table[metadata.isoCode[1]][IF strict THEN 2 ELSE 1]
             x == (IF Truthy(metadata.areaCode) THEN NumToString(metadata.areaCode[1]) ELSE << >>)
                  \o (IF metadata.phoneNumber # None THEN metadata.phoneNumber[1] ELSE << >>)
         IN  [threw |-> FALSE, value |-> RegExpTest(pattern, x)]


(***************************************************************************)
(* The static tables (src/metadata/*.json are not part of the sources; the *)
(* rows below have the documented shape: ISO code, dial code, mask whose   *)
(* leading digits are the dial code)                                       *)
(***************************************************************************)
MaskNANP == <<"+", "1", " ", "(", ".", ".", ".", ")", " ", ".", ".", ".", "-", ".", ".", ".", ".">>

MaskGB == <<"+", "4", "4", " ", ".", ".", ".", ".", " ", ".", ".", ".", ".", ".", ".">>

ca == [iso |-> <<"c", "a">>, dial |-> <<"1">>, mask |-> MaskNANP]

gb == [iso |-> <<"g", "b">>, dial |-> <<"4", "4">>, mask |-> MaskGB]

us == [iso |-> <<"u", "s">>, dial |-> <<"1">>, mask |-> MaskNANP]

\* line 9: import countries from "./metadata/countries.json"
countries == <<ca, gb, us>>

\* patterns of the validation table
AnyDigits(n, m) == [class |-> Digits, min |-> n, max |-> m]

From2To9 == [class |-> Digits \ {"0", "1"}, min |-> 1, max |-> 1]

Only7 == [class |-> {"7"}, min |-> 1, max |-> 1]

\* "^\\d{10}$" and "^[2-9]\\d{2}[2-9]\\d{6}$"
RulesNANP ==
    <<[start |-> TRUE, atoms |-> <<AnyDigits(10, 10)>>, end |-> TRUE],
      [start |-> TRUE, atoms |-> <<From2To9, AnyDigits(2, 2), From2To9, AnyDigits(6, 6)>>, end |-> TRUE]>>

\* "^\\d{9,10}$" and "^7\\d{9}$"
RulesGB ==
    <<[start |-> TRUE, atoms |-> <<AnyDigits(9, 10)>>, end |-> TRUE],
      [start |-> TRUE, atoms |-> <<Only7, AnyDigits(9, 9)>>, end |-> TRUE]>>

\* line 10: import validations from "./metadata/validations.json"
validations ==
    (<<"c", "a">> :> RulesNANP) @@ (<<"g", "b">> :> RulesGB) @@ (<<"u", "s">> :> RulesNANP)

\* lines 36-40
checkValidity(metadata, strict) == checkValidityIn(validations, metadata, strict)


(***************************************************************************)
(* Bounded sets of strings                                                 *)
(***************************************************************************)
\* all strings over the alphabet A of length at most n
RECURSIVE StringsUpTo(_, _)
StringsUpTo(A, n) ==
    IF n = 0 THEN {<< >>}
    ELSE LET shorter == StringsUpTo(A, n - 1)
         IN  shorter \cup {Append(s, c) : s \in shorter, c \in A}

\* all prefixes of s
Prefixes(s) == {SubSeq(s, 1, n) : n \in 0..Len(s)}

\* the ordered lists without repetition over the set R
RECURSIVE ListsOver(_)
ListsOver(R) ==
    {<< >>} \cup UNION {{<<r>> \o l : l \in ListsOver(R \ {r})} : r \in R}

\* the component at rest, for the specifications that call a helper directly
Unmounted ==
    /\ props = None /\ value = None /\ countryCode = None /\ backRef = FALSE
    /\ initiatedRef = FALSE /\ event = None /\ key = "none"
    /\ phoneMetadata = None /\ edits = 0

(***************************************************************************)
(* The Country Matcher called directly                                     *)
(***************************************************************************)
MaxRawLen == 3

MatcherDigits == {"1", "4"}

Raw1416 == <<"1", "4", "1", "6">>

MatcherPins == {None, Some(<<"c", "a">>), Some(<<"u", "s">>), Some(<<"g", "b">>), Some(<<"f", "r">>)}

MatcherCalls ==
    [rawValue : StringsUpTo(MatcherDigits, MaxRawLen) \cup {Raw1416},
     countriesList : ListsOver({ca, gb, us}),
     country : MatcherPins]

InitMatcher == Unmounted /\ call \in MatcherCalls /\ ret = None

CallGetMetadata ==
    /\ ret = None
    /\ ret' = Some(getMetadata(call.rawValue, call.countriesList, call.country))
    /\ UNCHANGED <<widgetVars, call>>

NextMatcher == CallGetMetadata

SpecMatcher == InitMatcher /\ [][NextMatcher]_vars

\* a candidate qualifies: its dial code is a prefix of the raw digits and it is the pinned one, if any
Qualifies(c, raw, pin) ==
    /\ Len(c.dial) <= Len(raw)
    /\ \A i \in 1..Len(c.dial) : c.dial[i] = raw[i]
    /\ (pin # None => c.iso = pin[1])

\* C1: the Country Matcher returns the first candidate, in candidate order, whose dial code
\* is a prefix of the raw digits and whose ISO code is the pin when a pin is given; it returns
\* absent exactly when no candidate qualifies; [ca, us] with 1416 and no pin gives ca.
C1_FirstQualifying ==
    ret # None =>
        LET r == ret[1]
            l == call.countriesList
            q(k) == Qualifies(l[k], call.rawValue, call.country)
        IN  /\ (r = None) <=> (\A k \in 1..Len(l) : ~q(k))
            /\ r # None => \E k \in 1..Len(l) :
                               /\ l[k] = r[1]
                               /\ q(k)
                               /\ \A m \in 1..(k - 1) : ~q(m)
            /\ (call.rawValue = Raw1416 /\ l = <<ca, us>> /\ call.country = None) => r = Some(ca)

C1_Witness ==
    /\ ret = Some(Some(ca))
    /\ call.rawValue = Raw1416 /\ call.countriesList = <<ca, us>> /\ call.country = None

(***************************************************************************)
(* The Mask Formatter called directly: cleanInput, then displayFormat      *)
(***************************************************************************)
MaxInputLen == 3

FormatChars == {"1", "2", "-"}

LongDigits == <<"1", "2", "0", "2", "5", "5", "5", "1", "2", "3", "4", "5", "6">>

\* a pasted value: separators, and more digits than any mask has slots
Pasted == <<"+", "1", " ", "(", "2", "0", "2", ")", " ", "5", "5", "5", "-", "1", "2", "3", "4", "5", "6">>

\* a mask whose parenthesised group holds a separator
MaskSplit == <<"+", "7", " ", "(", ".", ".", " ", ".", ".", ")", " ", ".", ".">>

MaskShort == <<"(", ".", ".", ")", " ", ".", "-", ".">>

FormatTemplates ==
    {MaskNANP, MaskGB, MaskSplit, MaskShort, DotDigits(MaskNANP), DotDigits(MaskGB), DotDigits(MaskSplit)}

FormatCalls ==
    [input : StringsUpTo(FormatChars, MaxInputLen) \cup Prefixes(LongDigits) \cup FormatTemplates \cup {Pasted},
     pattern : FormatTemplates]

InitFormatter == Unmounted /\ call \in FormatCalls /\ ret = None

CallCleanInput ==
    /\ ret = None
    /\ ret' = Some([out |-> cleanInput(call.input, call.pattern), display |-> None])
    /\ UNCHANGED <<widgetVars, call>>

CallDisplayFormat ==
    /\ ret # None
    /\ ret[1].display = None
    /\ ret' = Some([ret[1] EXCEPT !.display = Some(displayFormat(ret[1].out))])
    /\ UNCHANGED <<widgetVars, call>>

NextFormatter == CallCleanInput \/ CallDisplayFormat

SpecFormatter == InitFormatter /\ [][NextFormatter]_vars

\* the decimal digits of x, in order
RECURSIVE DigitsOf(_)
DigitsOf(x) ==
    IF x = << >> THEN << >>
    ELSE IF x[1] \in Digits THEN <<x[1]>> \o DigitsOf(Tail(x)) ELSE DigitsOf(Tail(x))

\* the number of slots among the first k characters of t
SlotsUpTo(t, k) == Cardinality({m \in 1..k : t[m] \in slots})

HasDigitLiteral(t) == \E k \in 1..Len(t) : t[k] \in Digits

\* every literal position holds the template's own character
LiteralsKept(out, t) == \A k \in 1..Len(t) : t[k] \notin slots => out[k] = t[k]

\* the k-th slot holds the k-th digit of x, or the slot marker when x has fewer digits
SlotsInOrder(out, x, t) ==
    \A k \in 1..Len(t) :
        t[k] \in slots =>
            LET n == SlotsUpTo(t, k)
            IN  out[k] = IF n <= Len(DigitsOf(x)) THEN DigitsOf(x)[n] ELSE t[k]

\* C2 as stated: for every input x and every template t, format(x, t) has length(t) characters,
\* the k-th slot holds the k-th digit of x (the slot marker when x has fewer digits), every
\* literal position holds the template's own character.
C2_AsStated ==
    ret # None =>
        /\ Len(ret[1].out) = Len(call.pattern)
        /\ LiteralsKept(ret[1].out, call.pattern)
        /\ SlotsInOrder(ret[1].out, call.input, call.pattern)

\* C2 amended: the length and the literal positions are as stated for every template; the
\* slots hold the digits of x in order for every template none of whose literals is a digit.
C2_SlotsWithoutDigitLiterals ==
    ret # None =>
        /\ Len(ret[1].out) = Len(call.pattern)
        /\ LiteralsKept(ret[1].out, call.pattern)
        /\ ~HasDigitLiteral(call.pattern) =>
               SlotsInOrder(ret[1].out, call.input, call.pattern)

\* an input with a non-digit and with more digits than slots, a template without digit literals
C2_Witness ==
    /\ ret # None
    /\ ~HasDigitLiteral(call.pattern)
    /\ Len(DigitsOf(call.input)) > SlotsUpTo(call.pattern, Len(call.pattern))
    /\ Len(DigitsOf(call.input)) < Len(call.input)

\* the display ends in a digit or a closing parenthesis, or is empty
EndsWell(d) == d = << >> \/ d[Len(d)] \in Digits \/ d[Len(d)] = ")"

\* every opening parenthesis is followed by a closing one
ParensClosed(d) == \A k \in 1..Len(d) : d[k] = "(" => \E m \in (k + 1)..Len(d) : d[m] = ")"

\* every parenthesised group of the template holds slot markers only
GroupsOfSlots(t) ==
    \A k \in 1..Len(t) :
        t[k] = "(" => \E m \in (k + 1)..Len(t) :
                          t[m] = ")" /\ \A j \in (k + 1)..(m - 1) : t[j] \in slots

\* C8 as stated: for every template and every digit run, the trimmed display is empty or ends
\* in a digit or a closing parenthesis, every opening parenthesis in it is followed by a closing
\* one, and it holds exactly the digits of format(x, t), in order.
C8_AsStated ==
    (ret # None /\ ret[1].display # None) =>
        LET d == ret[1].display[1]
        IN  /\ EndsWell(d)
            /\ ParensClosed(d)
            /\ DigitsOf(d) = DigitsOf(ret[1].out)

\* C8 amended: the display always ends well and keeps the digits; its parentheses are closed
\* for every template whose parenthesised groups hold slot markers only.
C8_WellFormedDisplay ==
    (ret # None /\ ret[1].display # None) =>
        LET d == ret[1].display[1]
        IN  /\ EndsWell(d)
            /\ DigitsOf(d) = DigitsOf(ret[1].out)
            /\ GroupsOfSlots(call.pattern) => ParensClosed(d)

\* an incomplete number that stops inside a parenthesised group: the parenthesis was appended
C8_Witness ==
    /\ ret # None /\ ret[1].display # None
    /\ GroupsOfSlots(call.pattern)
    /\ Len(ret[1].display[1]) > Len(TrimTail(ret[1].out))
    /\ \E k \in 1..Len(ret[1].out) : ret[1].out[k] \in slots

(***************************************************************************)
(* The Phone Number Parser called directly, on a value formatted through a *)
(* mask: displayFormat(clean(raw)), then parsePhoneNumber                  *)
(***************************************************************************)
MaxSubLen == 7

SubDigits == {"0", "5"}

AreaCodes == {100, 202, 415, 999, 20}

Sub5551234 == <<"5", "5", "5", "1", "2", "3", "4">>

\* subscriber numbers of the longest length and one short of it
Subscribers ==
    {x \in StringsUpTo(SubDigits, MaxSubLen) : Len(x) >= MaxSubLen - 1} \cup {Sub5551234}

GBSubscribers ==
    {<<"7", "9", "1", "1", "1", "2", "3", "4", "5", "6">>,
     <<"0", "9", "1", "1", "1", "2", "3", "4", "5", "6">>,
     <<"7", "9", "1", "1", "1", "2", "3", "4", "5">>}

\* numbers given by their parts, each with the country whose mask formats it
PartsCalls ==
    [number : {Some(n) : n \in [countryCode : {Some(1)}, areaCode : {Some(a) : a \in AreaCodes},
                                phoneNumber : {Some(x) : x \in Subscribers}, isoCode : {None}]},
     home : {us}, raw : {<< >>}, countriesList : {countries}, pinned : BOOLEAN]
    \cup
    [number : {Some(n) : n \in [countryCode : {Some(44)}, areaCode : {None},
                                phoneNumber : {Some(x) : x \in GBSubscribers}, isoCode : {None}]},
     home : {gb}, raw : {<< >>}, countriesList : {countries, <<us, gb>>}, pinned : BOOLEAN]

MaxTypedLen == 4

TypedDigits == {"1", "4"}

\* values typed digit by digit under a pinned country
TypedCalls ==
    [number : {None}, home : {ca, gb, us}, raw : StringsUpTo(TypedDigits, MaxTypedLen),
     countriesList : {countries, <<gb>>, << >>}, pinned : BOOLEAN]

ParserCalls == PartsCalls \cup TypedCalls

InitParser == Unmounted /\ call \in ParserCalls /\ ret = None

\* the pin handed to parsePhoneNumber
PinOf(c) == IF c.pinned THEN Some(c.home.iso) ELSE None

\* lines 164, 181: displayFormat(clean(value).join(""))
FormatValue ==
    /\ ret = None
    /\ LET raw == IF call.number # None THEN getRawValueOf(call.number[1]) ELSE call.raw
       IN  ret' = Some([formatted |-> displayFormat(clean(raw, call.home.mask)), parsed |-> None])
    /\ UNCHANGED <<widgetVars, call>>

\* lines 165, 182
CallParsePhoneNumber ==
    /\ ret # None
    /\ ret[1].parsed = None
    /\ ret' = Some([ret[1] EXCEPT !.parsed =
                       Some(parsePhoneNumber(ret[1].formatted, call.countriesList, PinOf(call)))])
    /\ UNCHANGED <<widgetVars, call>>

NextParser == FormatValue \/ CallParsePhoneNumber

SpecParser == InitParser /\ [][NextParser]_vars

Parsed == ret # None /\ ret[1].parsed # None

\* the number of decimal places of a positive integer
RECURSIVE Places(_)
Places(n) == IF n < 10 THEN 1 ELSE 1 + Places(n \div 10)

\* the digits right after the mask's "+", and the slots of its first parenthesised group
MaskCodeLen(mask) == Len(DigitRun(mask, 2))

MaskAreaLen(mask) ==
    IF \E k \in 1..Len(mask) : mask[k] = "("
    THEN LET k == CHOOSE j \in 1..Len(mask) : mask[j] = "(" /\ \A m \in 1..(j - 1) : mask[m] # "("
         IN  Cardinality({j \in (k + 1)..Len(mask) :
                 mask[j] \in slots /\ \A m \in (k + 1)..j : mask[m] \in slots})
    ELSE 0

MaskSlots(mask) == Cardinality({k \in 1..Len(mask) : mask[k] \in slots})

\* a complete number of a country: its parts fill the groups of the country's mask
Complete(n, c) ==
    /\ n.countryCode # None /\ Places(n.countryCode[1]) = MaskCodeLen(c.mask)
    /\ NumToString(n.countryCode[1]) = c.dial
    /\ IF MaskAreaLen(c.mask) = 0 THEN n.areaCode = None
       ELSE n.areaCode # None /\ n.areaCode[1] > 0 /\ Places(n.areaCode[1]) = MaskAreaLen(c.mask)
    /\ n.phoneNumber # None
    /\ Len(n.phoneNumber[1]) = MaskSlots(c.mask) - MaskAreaLen(c.mask)

\* C4: a complete number built from (countryCode, areaCode, subscriberNumber) and formatted
\* through its country's mask parses back to the same subscriber number; the US number
\* 1 202 5551234 displays as +1 (202) 555-1234 and parses to 1, 202, 5551234, us under the pin us.
C4_RoundTrip ==
    (Parsed /\ call.number # None /\ Complete(call.number[1], call.home)) =>
        LET n == call.number[1]
            p == ret[1].parsed[1]
        IN  /\ p.phoneNumber = n.phoneNumber
            /\ p.countryCode = n.countryCode
            /\ p.areaCode = n.areaCode
            /\ call.pinned => p.isoCode = Some(call.home.iso)
            /\ (n.areaCode = Some(202) /\ n.phoneNumber = Some(Sub5551234)) =>
                   ret[1].formatted = <<"+", "1", " ", "(", "2", "0", "2", ")", " ",
                                        "5", "5", "5", "-", "1", "2", "3", "4">>

C4_Witness ==
    /\ Parsed /\ call.number # None /\ call.pinned
    /\ call.number[1].areaCode = Some(202) /\ call.number[1].phoneNumber = Some(Sub5551234)
    /\ ret[1].parsed[1] = [countryCode |-> Some(1), areaCode |-> Some(202),
                           phoneNumber |-> Some(Sub5551234), isoCode |-> Some(<<"u", "s">>)]

\* the Country Matcher resolves no country for the parsed value
Unresolved ==
    \A k \in 1..Len(call.countriesList) :
        ~Qualifies(call.countriesList[k], DigitsOf(ret[1].formatted), PinOf(call))

\* C7 as stated: when the Country Matcher resolves no country, parse returns countryCode,
\* areaCode and subscriberNumber all absent.
C7_AsStated ==
    (Parsed /\ Unresolved) =>
        LET p == ret[1].parsed[1]
        IN  p.countryCode = None /\ p.areaCode = None /\ p.phoneNumber = None

\* C7 amended: when the Country Matcher resolves no country, parse returns isoCode absent and
\* still extracts the other fields from the text: countryCode is absent exactly when no "+" is
\* followed by a digit, areaCode exactly when no digit run stands between parentheses, and the
\* subscriber number, when present, follows a present country code and is a proper tail of the
\* raw digits; absence is a value, never an error.
C7_FieldsFromText ==
    (Parsed /\ Unresolved) =>
        LET p == ret[1].parsed[1]
            f == ret[1].formatted
            raw == DigitsOf(f)
        IN  /\ p.isoCode = None
            /\ (p.countryCode = None) <=>
                   ~\E k \in 1..(Len(f) - 1) : f[k] = "+" /\ f[k + 1] \in Digits
            /\ (p.areaCode = None) <=>
                   ~\E k \in 1..Len(f) : \E m \in (k + 2)..Len(f) :
                        f[k] = "(" /\ f[m] = ")" /\ \A j \in (k + 1)..(m - 1) : f[j] \in Digits
            /\ p.phoneNumber # None =>
                   /\ p.countryCode # None
                   /\ Len(p.phoneNumber[1]) \in 1..(Len(raw) - 1)
                   /\ SubSeq(raw, Len(raw) - Len(p.phoneNumber[1]) + 1, Len(raw)) = p.phoneNumber[1]

\* no country resolves, and yet a country code and a subscriber number are returned
C7_Witness ==
    /\ Parsed /\ Unresolved
    /\ ret[1].parsed[1].countryCode # None
    /\ ret[1].parsed[1].phoneNumber # None

(***************************************************************************)
(* The Validator called directly, and through the valid callback that      *)
(* onChange and the mount effect hand out with a parsed number             *)
(***************************************************************************)
\* the same rules written without anchors: "\\d{10}" and "[2-9]\\d{2}[2-9]\\d{6}"
RulesLoose ==
    <<[start |-> FALSE, atoms |-> <<AnyDigits(10, 10)>>, end |-> FALSE],
      [start |-> FALSE, atoms |-> <<From2To9, AnyDigits(2, 2), From2To9, AnyDigits(6, 6)>>, end |-> FALSE]>>

validationsLoose ==
    (<<"c", "a">> :> RulesLoose) @@ (<<"g", "b">> :> RulesGB) @@ (<<"u", "s">> :> RulesLoose)

MaxValidLen == 8

ValidDigits == {"0", "5"}

ValidNumbers ==
    {None} \cup {Some(x) : x \in {y \in StringsUpTo(ValidDigits, MaxValidLen) : Len(y) >= MaxValidLen - 2}}

ValidIsos == {None, Some(<<"u", "s">>), Some(<<"g", "b">>), Some(<<"z", "z">>)}

\* PhoneNumbers handed to the validator directly
DirectCalls ==
    [metadata : [countryCode : {Some(1)}, areaCode : {None, Some(0), Some(20), Some(120), Some(202)},
                 phoneNumber : ValidNumbers, isoCode : ValidIsos],
     strict : BOOLEAN, table : {validations, validationsLoose}, callback : {FALSE}]

\* PhoneNumbers parsed by onChange (line 165) from a typed value under a pinned country
CallbackCalls ==
    [metadata : {parsePhoneNumber(displayFormat(clean(raw, us.mask)), countries, pin) :
                    raw \in StringsUpTo(TypedDigits, MaxTypedLen) \cup Prefixes(LongDigits),
                    pin \in {Some(us.iso), Some(gb.iso)}},
     strict : BOOLEAN, table : {validations}, callback : {TRUE}]

ValidatorCalls == DirectCalls \cup CallbackCalls

InitValidator == Unmounted /\ call \in ValidatorCalls /\ ret = None

\* lines 166, 183, 186: valid: (strict) => checkValidity(phoneMetadata, strict)
CallCheckValidity ==
    /\ ret = None
    /\ ret' = Some(checkValidityIn(call.table, call.metadata, call.strict))
    /\ UNCHANGED <<widgetVars, call>>

NextValidator == CallCheckValidity

SpecValidator == InitValidator /\ [][NextValidator]_vars

\* the concatenation of the area code and the subscriber number, absent parts left out
NationalDigits(n) ==
    (IF n.areaCode # None /\ n.areaCode[1] # 0 THEN NumToString(n.areaCode[1]) ELSE << >>)
    \o (IF n.phoneNumber # None THEN n.phoneNumber[1] ELSE << >>)

HasRule(c) == c.metadata.isoCode # None /\ c.metadata.isoCode[1] \in DOMAIN c.table

\* the pattern the claim has isValid choose
ChosenRule(c) == c.table[c.metadata.isoCode[1]][IF c.strict THEN 2 ELSE 1]

\* C5 as stated: isValid returns true only if the chosen pattern matches the entire
\* concatenation of areaCode and subscriberNumber.
C5_AsStated ==
    (ret # None /\ HasRule(call) /\ ret[1].value) =>
        MatchAtoms(ChosenRule(call).atoms, NationalDigits(call.metadata))

\* C5 amended: isValid returns true only if the chosen pattern (strict when strict, lenient
\* otherwise) matches some part of the concatenation; when the chosen pattern is anchored at
\* both ends it returns true exactly when the pattern matches the entire concatenation.
C5_SearchSemantics ==
    (ret # None /\ HasRule(call)) =>
        LET x == NationalDigits(call.metadata)
            rule == ChosenRule(call)
        IN  /\ ~ret[1].threw
            /\ ret[1].value =>
                   \E i \in 1..(Len(x) + 1) : \E j \in (i - 1)..Len(x) :
                       MatchAtoms(rule.atoms, SubSeq(x, i, j))
            /\ (rule.start /\ rule.end) => (ret[1].value <=> MatchAtoms(rule.atoms, x))

\* a number the lenient anchored pattern accepts whole and the strict one rejects
C5_Witness ==
    /\ ret # None /\ HasRule(call) /\ ~call.strict /\ ret[1].value
    /\ ChosenRule(call).start /\ ChosenRule(call).end
    /\ ~MatchAtoms(call.table[call.metadata.isoCode[1]][2].atoms, NationalDigits(call.metadata))

\* C6: for an ISO code of the validation table isValid returns a boolean; for an absent ISO code
\* or one without an entry it raises an error and returns neither true nor false; so does the
\* valid callback of a parsed number whose country did not resolve.
C6_Totality ==
    ret # None =>
        /\ ret[1].threw <=> ~HasRule(call)
        /\ ret[1].threw => ~ret[1].value
        /\ (call.callback /\ call.metadata.isoCode = None) => ret[1].threw

\* the valid callback of a parsed number with a country code and no resolved country raised
C6_Witness ==
    /\ ret # None /\ call.callback
    /\ call.metadata.countryCode # None /\ call.metadata.isoCode = None
    /\ ret[1].threw

(***************************************************************************)
(* The PhoneInput component (lines 69-243) with its default props, but for *)
(* value and country: no search, no allow, exclude or preferred list, so   *)
(* countriesList is the whole table                                        *)
(***************************************************************************)
MaxEdits == 2

TypedChars == {"1"}

Keys == TypedChars \cup {"Backspace", "ArrowLeft"}

PastedTexts == {<<"4", "4">>}

Display2025551234 ==
    <<"+", "1", " ", "(", "2", "0", "2", ")", " ", "5", "5", "5", "-", "1", "2", "3", "4">>

InitialValues == {<< >>, Display2025551234}

InitialCountries == {<<"u", "s">>, <<"g", "b">>}

\* countries.find(([iso]) => iso === code) of lines 86, 87
FindByIso(code) ==
    IF \E k \in 1..Len(countries) : countries[k].iso = code
    THEN Some(countries[CHOOSE k \in 1..Len(countries) :
                  countries[k].iso = code /\ \A m \in 1..(k - 1) : countries[m].iso # code])
    ELSE None

\* line 85
defaultValue == getRawValue(props.value)

\* line 86
defaultMetadata ==
    LET m == getMetadata(defaultValue, countries, None)
    IN  IF m # None THEN m ELSE FindByIso(props.country)

\* line 87
defaultValueState ==
    IF defaultValue # << >> THEN defaultValue ELSE FindByIso(defaultMetadata[1].iso)[1].dial

\* lines 103-113, with the default props
countriesList == countries

\* lines 115-121
metadata ==
    LET calculatedMetadata == getMetadata(getRawValue(value), countriesList, countryCode)
        listed(c) == \/ (calculatedMetadata # None /\ c.iso = calculatedMetadata[1].iso)
                     \/ (defaultMetadata # None /\ c.iso = defaultMetadata[1].iso)
    IN  IF ~\E k \in 1..Len(countriesList) : listed(countriesList[k])
        THEN Some(countriesList[1])
        ELSE IF calculatedMetadata # None THEN calculatedMetadata ELSE defaultMetadata

\* lines 123-125
pattern == IF metadata # None THEN metadata[1].mask ELSE defaultMetadata[1].mask

\* lines 131-133: the first slot marker of the mask as it is written
first(pat) == FindIndex(pat, slots)

\* lines 135-139: for every offset of the mask whose digits are turned into slots, the offset
\* after the last slot at or before it, 0 when there is none
prev(pat) ==
    LET dotted == DotDigits(pat)
    IN  [k \in 1..Len(pat) |->
            IF \E m \in 1..k : dotted[m] \in slots
            THEN CHOOSE m \in 1..k : dotted[m] \in slots /\ \A n \in (m + 1)..k : dotted[n] \notin slots
            ELSE 0]

\* lines 148-151: the caret offset for one selection offset of the edited value
caret(v, sel, pat, back) ==
    LET i == FindIndex(clean(Slice0(v, sel), pat), slots)
    IN  IF i < 0 THEN prev(pat)[Len(pat)]
        ELSE IF back
             THEN IF i >= 1 /\ prev(pat)[i] # 0 THEN prev(pat)[i] ELSE first(pat)
             ELSE i

\* what the browser hands to onInput after its default action for the last key, or after a paste
Remove(v, p) == SubSeq(v, 1, p - 1) \o SubSeq(v, p + 1, Len(v))

Insert(v, p, x) == SubSeq(v, 1, p) \o x \o SubSeq(v, p + 1, Len(v))

Targets ==
    (IF key = "Backspace"
     THEN {[value |-> Remove(value, p), selectionStart |-> p - 1, selectionEnd |-> p - 1] :
              p \in 1..Len(value)}
     ELSE {})
    \cup
    (IF key \in TypedChars
     THEN {[value |-> Insert(value, p, <<key>>), selectionStart |-> p + 1, selectionEnd |-> p + 1] :
              p \in 0..Len(value)}
     ELSE {})
    \cup
    {[value |-> Insert(value, p, x), selectionStart |-> p + Len(x), selectionEnd |-> p + Len(x)] :
        p \in {0, Len(value)}, x \in PastedTexts}

Init ==
    /\ props \in [value : InitialValues, country : InitialCountries]
    /\ value = defaultValueState
    /\ countryCode = Some(props.country)
    /\ backRef = FALSE
    /\ initiatedRef = FALSE
    /\ event = None
    /\ key = "none"
    /\ phoneMetadata = None
    /\ edits = 0
    /\ call = None
    /\ ret = None

\* lines 174-189: the mount effect
Mount ==
    /\ ~initiatedRef
    /\ initiatedRef' = TRUE
    /\ LET raw == getRawValue(value)
           initialValue == IF StartsWith(raw, metadata[1].dial) THEN raw ELSE metadata[1].dial
           formattedNumber == displayFormat(clean(initialValue, pattern))
       IN  /\ phoneMetadata' = Some(parsePhoneNumber(formattedNumber, countriesList, None))
           /\ value' = formattedNumber
    /\ UNCHANGED <<props, countryCode, backRef, event, key, edits, call, ret>>

\* lines 158-161
OnKeyDown(k) ==
    /\ initiatedRef
    /\ event = None
    /\ backRef' = (k = "Backspace")
    /\ key' = k
    /\ UNCHANGED <<props, value, countryCode, initiatedRef, event, phoneMetadata, edits, call, ret>>

\* a variant of format that leaves backRef as it is
OnInputKeepsFlag(target) ==
    /\ initiatedRef
    /\ event = None
    /\ edits < MaxEdits
    /\ LET i == caret(target.value, target.selectionStart, pattern, backRef)
           j == caret(target.value, target.selectionEnd, pattern, backRef)
           display == displayFormat(clean(target.value, pattern))
       IN  /\ event' = Some([target |-> target, key |-> key, pattern |-> pattern,
                             i |-> i, j |-> j, value |-> display])
           /\ value' = display
    /\ key' = "none"
    /\ edits' = edits + 1
    /\ UNCHANGED <<props, countryCode, backRef, initiatedRef, phoneMetadata, call, ret>>

\* lines 169-172 and 147-156: onInput runs format on the event's target
OnInput(target) ==
    /\ initiatedRef
    /\ event = None
    /\ edits < MaxEdits
    /\ LET i == caret(target.value, target.selectionStart, pattern, backRef)
           j == caret(target.value, target.selectionEnd, pattern, backRef)
           display == displayFormat(clean(target.value, pattern))
       IN  /\ event' = Some([target |-> target, key |-> key, pattern |-> pattern,
                             i |-> i, j |-> j, value |-> display])
           /\ value' = display
    /\ backRef' = FALSE
    /\ key' = "none"
    /\ edits' = edits + 1
    /\ UNCHANGED <<props, countryCode, initiatedRef, phoneMetadata, call, ret>>

\* lines 163-167: onChange of the same event, with the callbacks of the render before it
OnChange ==
    /\ event # None
    /\ LET formattedNumber == displayFormat(clean(event[1].value, event[1].pattern))
       IN  phoneMetadata' = Some(parsePhoneNumber(formattedNumber, countriesList, countryCode))
    /\ event' = None
    /\ UNCHANGED <<props, value, countryCode, backRef, initiatedRef, key, edits, call, ret>>

\* lines 196-199: onSelect of the country dropdown; the option's value is iso + dial, its key the mask
OnSelect(c) ==
    /\ initiatedRef
    /\ event = None
    /\ value' = displayFormat(cleanInput(c.mask, c.mask))
    /\ countryCode' = Some(Slice0(c.iso \o c.dial, 2))
    /\ UNCHANGED <<props, backRef, initiatedRef, event, key, phoneMetadata, edits, call, ret>>

Next ==
    \/ Mount
    \/ \E k \in Keys : OnKeyDown(k)
    \/ \E target \in Targets : OnInput(target)
    \/ OnChange
    \/ \E k \in 1..Len(countriesList) : OnSelect(countriesList[k])

Spec == Init /\ [][Next]_vars

\* the first slot of the mask as the formatter fills it, digits of the mask included
FirstSlot(pat) == FindIndex(DotDigits(pat), slots)

\* C3 as stated: both caret offsets computed for an edit lie in [0, length(newDisplay)], where
\* newDisplay is the trimmed display produced from the same edit.
C3_CaretInDisplay ==
    event # None =>
        /\ event[1].i \in 0..Len(event[1].value)
        /\ event[1].j \in 0..Len(event[1].value)

\* the value +1 (202) 55-1234 that Backspace leaves of +1 (202) 555-1234 with the caret after 555
Removed5 ==
    [value |-> <<"+", "1", " ", "(", "2", "0", "2", ")", " ", "5", "5", "-", "1", "2", "3", "4">>,
     selectionStart |-> 11, selectionEnd |-> 11]

\* C9 as stated: when the edit is a backspace and the prefix up to the selection leaves a slot
\* unfilled, the caret is never left of the template's first slot and never right of the offset
\* the same edit gets without the backspace flag; deleting the last 5 of 555 in
\* +1 (202) 555-1234 leaves the caret left of the removed digit.
C9_BackspaceStepsLeft ==
    (event # None /\ event[1].key = "Backspace") =>
        LET e == event[1]
            forward == caret(e.target.value, e.target.selectionStart, e.pattern, FALSE)
        IN  /\ FindIndex(clean(Slice0(e.target.value, e.target.selectionStart), e.pattern), slots) >= 0 =>
                   /\ e.i >= FirstSlot(e.pattern)
                   /\ e.i <= forward
            /\ e.target = Removed5 => e.i <= 11

\* C10: the backspace flag is false right after each formatting pass and is set exactly while
\* the last keydown since the previous pass was Backspace; each pass computes its carets by the
\* backspace rule if and only if that keydown was Backspace, by the forward rule otherwise.
C10_FlagReflectsOneEdit ==
    /\ event # None => ~backRef
    /\ backRef <=> key = "Backspace"
    /\ event # None =>
           LET e == event[1]
           IN  /\ e.i = caret(e.target.value, e.target.selectionStart, e.pattern, e.key = "Backspace")
               /\ e.j = caret(e.target.value, e.target.selectionEnd, e.pattern, e.key = "Backspace")

\* a second pass, without any keydown before it, that the backspace rule would have placed elsewhere
C10_Witness ==
    /\ event # None /\ edits = 2
    /\ event[1].key = "none"
    /\ event[1].i # caret(event[1].target.value, event[1].target.selectionStart, event[1].pattern, TRUE)

=============================================================================
